---- MODULE Spec2Model ----
(***************************************************************************)
(* NeoBin: a BLE peripheral (src/main.py, src/BluetoothManager.py) that    *)
(* drives a servo lid.  Two execution contexts share the NeoService        *)
(* object: the GLib main loop, which runs one D-Bus method handler at a    *)
(* time (AuthChrc.WriteValue, WriteChrc.WriteValue, InformChrc.ReadValue,  *)
(* StartNotify, StopNotify), and the daemon thread running                 *)
(* NeoService.sensor_loop.  The source takes no lock, so the steps of a    *)
(* handler and the steps of the sensor loop interleave statement by        *)
(* statement; the model keeps one program counter per context.             *)
(***************************************************************************)
EXTENDS Integers, Sequences, FiniteSets, TLC

(***************************************************************************)
(* Bounds of the model.                                                    *)
(***************************************************************************)
\* Largest number of method calls the main loop takes in one run.
MaxCalls == 3
\* Largest number of measurements that return a distance while commands arrive.
MaxReads == 1
\* Largest number of measurements that return a distance when the sensor loop runs alone.
MaxSeq == 3
\* Largest number of method calls when nothing comes within the sensor's range.
MaxCmds == 4

(***************************************************************************)
(* Text.  A payload is a sequence of tokens: one token per character,      *)
(* except that a name inside a payload (a JSON string literal, an SSID, a  *)
(* password) is one token.  "\\xff" stands for a byte that is not UTF-8.   *)
(***************************************************************************)
DigitChars == {"0", "1", "2", "3", "4", "5", "6", "7", "8", "9"}

DigitVal(c) ==
  CASE c = "0" -> 0 [] c = "1" -> 1 [] c = "2" -> 2 [] c = "3" -> 3
    [] c = "4" -> 4 [] c = "5" -> 5 [] c = "6" -> 6 [] c = "7" -> 7
    [] c = "8" -> 8 [] c = "9" -> 9

StartsWith(s, p) == Len(s) >= Len(p) /\ SubSeq(s, 1, Len(p)) = p

Drop(s, n) == SubSeq(s, n + 1, Len(s))

RECURSIVE Strip(_)
\* str.strip() as int() applies it: blanks off both ends.
Strip(s) ==
  IF s = <<>> THEN s
  ELSE IF Head(s) = " " THEN Strip(Tail(s))
  ELSE IF s[Len(s)] = " " THEN Strip(SubSeq(s, 1, Len(s) - 1))
  ELSE s

RECURSIVE DigitsValue(_)
DigitsValue(s) ==
  IF s = <<>> THEN 0 ELSE 10 * DigitsValue(SubSeq(s, 1, Len(s) - 1)) + DigitVal(s[Len(s)])

AllDigits(s) == s # <<>> /\ \A i \in 1..Len(s) : s[i] \in DigitChars

\* a conversion that stops at the first character that is no digit, as atoi does
ParseIntPrefix(text) ==
  IF text # <<>> /\ Head(text) \in DigitChars
    THEN [ok |-> TRUE, n |-> DigitVal(Head(text))]
    ELSE [ok |-> FALSE, n |-> 0]

\* Python's int(text): [ok |-> TRUE, n |-> value], or ok = FALSE for ValueError.
ParseInt(text) ==
  LET s == Strip(text)
      signed == s # <<>> /\ Head(s) \in {"-", "+"}
      body == IF signed THEN Tail(s) ELSE s
  IN IF AllDigits(body)
       THEN [ok |-> TRUE,
             n |-> IF signed /\ Head(s) = "-" THEN 0 - DigitsValue(body) ELSE DigitsValue(body)]
       ELSE [ok |-> FALSE, n |-> 0]

\* bytes(value).decode('utf-8'): fails on a byte that is not UTF-8.
Utf8Ok(value) == \A i \in 1..Len(value) : value[i] # "\\xff"

RECURSIVE SplitColon(_)
\* str.split(":"): the fields between the colons.
SplitColon(s) ==
  IF \A i \in 1..Len(s) : s[i] # ":" THEN <<s>>
  ELSE LET k == CHOOSE i \in 1..Len(s) : s[i] = ":" /\ \A j \in 1..(i - 1) : s[j] # ":"
       IN <<SubSeq(s, 1, k - 1)>> \o SplitColon(Drop(s, k))

(***************************************************************************)
(* json.loads on the text after "SETTINGS:".  The model reads one JSON     *)
(* shape, an object of name : value members whose values are a string or   *)
(* a number, and any other text is a JSONDecodeError, except a bare        *)
(* number, which json.loads accepts and which is no dict.                  *)
(***************************************************************************)
Punct == {"{", "}", ":", ",", " ", "-", "+", "\\xff"} \cup DigitChars

IsName(c) == c \notin Punct

\* The index of the first "," of s, or Len(s) + 1.
FirstComma(s) ==
  IF \E i \in 1..Len(s) : s[i] = ","
    THEN CHOOSE i \in 1..Len(s) : s[i] = "," /\ \A j \in 1..(i - 1) : s[j] # ","
    ELSE Len(s) + 1

\* A JSON number as the model writes it: digits after an optional minus sign.
IsNumber(val) == val # <<>> /\ AllDigits(IF Head(val) = "-" THEN Tail(val) ELSE val)

IsString(val) == Len(val) = 1 /\ IsName(val[1])

Member(k, val) ==
  [k |-> k, num |-> IsNumber(val), n |-> IF IsNumber(val) THEN ParseInt(val).n ELSE 0,
   s |-> IF IsString(val) THEN val[1] ELSE ""]

RECURSIVE Members(_, _)
\* The members of an object body k : v , k : v ... after those in acc;
\* ok = FALSE on a syntax error.
Members(s, acc) ==
  IF Len(s) < 3 \/ ~IsName(s[1]) \/ s[2] # ":" THEN [ok |-> FALSE, m |-> <<>>]
  ELSE IF ~(IsNumber(SubSeq(s, 3, FirstComma(s) - 1)) \/ IsString(SubSeq(s, 3, FirstComma(s) - 1)))
    THEN [ok |-> FALSE, m |-> <<>>]
  ELSE IF FirstComma(s) > Len(s)
    THEN [ok |-> TRUE, m |-> Append(acc, Member(s[1], SubSeq(s, 3, Len(s))))]
  ELSE Members(Drop(s, FirstComma(s)), Append(acc, Member(s[1], SubSeq(s, 3, FirstComma(s) - 1))))

\* [kind |-> "dict", m |-> members] | [kind |-> "number"] | [kind |-> "error"]
JsonLoads(text) ==
  IF Len(text) >= 2 /\ Head(text) = "{" /\ text[Len(text)] = "}"
    THEN IF Len(text) = 2 THEN [kind |-> "dict", m |-> <<>>]
         ELSE IF Members(SubSeq(text, 2, Len(text) - 1), <<>>).ok
           THEN [kind |-> "dict", m |-> Members(SubSeq(text, 2, Len(text) - 1), <<>>).m]
           ELSE [kind |-> "error", m |-> <<>>]
    ELSE IF IsNumber(text) THEN [kind |-> "number", m |-> <<>>]
    ELSE [kind |-> "error", m |-> <<>>]

HasKey(ms, k) == \E i \in 1..Len(ms) : ms[i].k = k

\* dict[k]: a later member of the same name wins, as in json.loads.
Lookup(ms, k) == ms[CHOOSE i \in 1..Len(ms) : ms[i].k = k /\ \A j \in (i + 1)..Len(ms) : ms[j].k # k]

(***************************************************************************)
(* The payloads the model writes to the characteristics.                   *)
(***************************************************************************)
PASS == <<"N", "e", "o", "B", "i", "n">>

AuthPayloads == {PASS, <<"n", "e", "o", "b", "i", "n">>, <<"N", "e", "o">>, PASS \o <<" ">>, <<>>}

kANGLE == <<"A", "N", "G", "L", "E", ":">>
kCONNECT == <<"C", "O", "N", "N", "E", "C", "T", ":">>
kSETTINGS == <<"S", "E", "T", "T", "I", "N", "G", "S", ":">>
wOPEN == <<"O", "P", "E", "N">>
wCLOSE == <<"C", "L", "O", "S", "E">>
wSTATUS == <<"S", "T", "A", "T", "U", "S">>
wSETTINGS == <<"S", "E", "T", "T", "I", "N", "G", "S">>
wGET_SETTINGS == <<"G", "E", "T", "_", "S", "E", "T", "T", "I", "N", "G", "S">>
wWIFI_DISCONNECT == <<"W", "I", "F", "I", "_", "D", "I", "S", "C", "O", "N", "N", "E", "C", "T">>
wGET_WIFI == <<"G", "E", "T", "_", "W", "I", "F", "I">>

\* WriteChrc.command_handler: keyword -> handler.
CommandHandler(command) ==
  CASE command = wOPEN -> "set_open"
    [] command = wCLOSE -> "set_close"
    [] command = wSTATUS -> "set_status"
    [] command = wSETTINGS -> "update_settings"
    [] command = wGET_SETTINGS -> "get_settings"
    [] command = wWIFI_DISCONNECT -> "disconnect_from_wifi"
    [] command = wGET_WIFI -> "get_wifi"
    [] OTHER -> "none"

AnglePayloads ==
  { kANGLE \o t : t \in { <<"9", "0">>, <<"-", "5">>, <<"0">>, <<" ", "9", "0">>, <<"+", "9", "0">>,
                          <<"9", "x">>, <<"-">>, <<>> } }

SettingsJson(type, key, digits) ==
  kSETTINGS \o <<"{", "type", ":", type, ",", "key", ":", key, ",", "value", ":">> \o digits \o <<"}">>

SettingsPayloads ==
  { SettingsJson("settings", k, <<"1", "0">>) : k \in {"minAngle", "maxAngle", "detectDistance", "color"} }
    \cup { SettingsJson("settings", "maxAngle", <<"9", "0">>),
           SettingsJson("wifi", "maxAngle", <<"9", "0">>),
           kSETTINGS \o <<"{", "key", ":", "maxAngle", ",", "value", ":", "9", "0", "}">>,
           kSETTINGS \o <<"{", "type">>,
           kSETTINGS \o <<"9", "0">> }

Payloads ==
  AnglePayloads \cup SettingsPayloads
    \cup { wOPEN, wCLOSE, wSTATUS, wSETTINGS, wGET_SETTINGS, wWIFI_DISCONNECT, wGET_WIFI,
           <<"P", "I", "N", "G">>, <<"O", "P", "E", "N", " ">>, <<"\\xff">>,
           kCONNECT \o <<"home", ":", "secret">>, kCONNECT \o <<"home">> }

\* What the echo pin gives one measurement: a distance in cm; 0 is an edge timeout.
RawEcho == {0, 15, 25, 400}

(***************************************************************************)
(* State.                                                                  *)
(***************************************************************************)
VARIABLES
  is_auth,    \* NeoService.is_auth
  status,     \* NeoService.status: the device is on
  angle,      \* NeoService.angle
  opened,     \* NeoService.opened
  running,    \* NeoService.running
  settings,   \* NeoService.settings["settings"]: key -> value
  disk,       \* settings.json, its "settings" object
  notifying,  \* InformChrc.notifying
  servo,      \* the pulse width last given to pi.set_servo_pulsewidth
  pi,         \* the pigpio handle: "up", or "stopped" after pi.stop()
  sig,        \* signal_handler's position
  th,         \* the two contexts: th.cmd (GLib main loop), th.sen (SensorThread)
  left,       \* the number of method calls the main loop has yet to take
  seen        \* the distances measure_distance has returned so far, zeros left out

vars == <<is_auth, status, angle, opened, running, settings, disk, notifying, servo, pi, sig, th,
          left, seen>>

\* Everything but the contexts' own positions and locals.
shared == <<is_auth, status, angle, opened, running, settings, disk, notifying, servo, pi, sig,
            left, seen>>

count == <<left, seen>>

state == <<is_auth, status, angle, opened, running, settings, disk, notifying, servo, pi, sig>>

Ok == [err |-> "", why |-> ""]

\* FailedException(str(e)) as WriteValue, ReadValue and StartNotify raise it.
Failed(why) == [err |-> "org.bluez.Error.Failed", why |-> why]

NInt(k, n) == [k |-> k, n |-> n, b |-> FALSE]

NBool(k, b) == [k |-> k, n |-> 0, b |-> b]

\* A context at rest.  pc: the statement it is at; call: the method called; op, n, typ, key: the operation and its arguments; a:
\* set_servo_angle's argument; res, ret: the call's error and return value; out: the
\* change signals the operation has emitted; drv: its calls of the actuator; d: the
\* distance measured; calls: the operations the sensor loop has invoked.
Rest ==
  [pc |-> "idle", call |-> "", op |-> "", n |-> 0, a |-> 0, key |-> "", res |-> Ok,
   typ |-> "", ret |-> NInt("", 0), out |-> <<>>, drv |-> 0, d |-> 0, calls |-> <<>>]

DefaultSettings == [k \in {"minAngle", "maxAngle", "detectDistance"} |->
                      CASE k = "minAngle" -> 0 [] k = "maxAngle" -> 180 [] k = "detectDistance" -> 20]

\* set_servo_angle's pulse width; // is floor division, as \div is.
PulseWidth(a) == 500 + (((180 - a) * 2000) \div 180)

Init ==
  /\ is_auth = FALSE
  /\ status = TRUE
  /\ angle = 0
  /\ opened = (180 >= 0 /\ 0 > 0)
  /\ running = TRUE
  /\ settings = DefaultSettings
  /\ disk = DefaultSettings
  /\ notifying = FALSE
  /\ servo = PulseWidth(DefaultSettings["minAngle"])
  /\ pi = "up"
  /\ sig = "none"
  /\ th = [t \in {"cmd", "sen"} |-> IF t = "sen" THEN [Rest EXCEPT !.pc = "loop"] ELSE Rest]
  /\ left = MaxCalls
  /\ seen = <<>>

\* A context runs: the main loop until the signal handler takes the main thread,
\* the daemon thread until the process exits.
Runs(t) == IF t = "cmd" THEN sig = "none" ELSE sig # "exited"

\* a send that does not look at notifying
send_unconditionally(out, data) == Append(out, data)

\* InformChrc.send_notification: the signals emitted, after sending data.
send_notification(out, data) == IF notifying THEN Append(out, data) ELSE out

(***************************************************************************)
(* The dispatcher operations set_open, set_close and the ANGLE: branch of  *)
(* WriteValue, statement by statement, in context t.                       *)
(***************************************************************************)
\* The exception e leaves the operation: WriteValue wraps it, sensor_loop logs it.
Raise(t, why) ==
  IF t = "cmd" THEN [th EXCEPT ![t].pc = "done", ![t].res = Failed(why)]
  ELSE [th EXCEPT ![t].pc = "except"]

\* set_open with the opening angle written out as 180
TargetFixed(op, n) ==
  CASE op = "Angle" -> n
    [] op = "Open" -> 180
    [] op = "Close" -> settings["minAngle"]

\* a set_close that goes to angle 0 whatever minAngle is
TargetCloseZero(op, n) ==
  CASE op = "Angle" -> n
    [] op = "Open" -> settings["maxAngle"]
    [] op = "Close" -> 0

\* self.service.angle = <target>
Target(op, n) ==
  CASE op = "Angle" -> n
    [] op = "Open" -> settings["maxAngle"]
    [] op = "Close" -> settings["minAngle"]

Assign(t) ==
  /\ Runs(t) /\ th[t].pc = "assign"
  /\ angle' = Target(th[t].op, th[t].n)
  /\ th' = [th EXCEPT ![t].pc = "arg"]
  /\ UNCHANGED <<is_auth, status, opened, running, settings, disk, notifying, servo, pi, sig, count>>

\* set_servo_angle(self.service.angle): the argument is read
Arg(t) ==
  /\ Runs(t) /\ th[t].pc = "arg"
  /\ th' = [th EXCEPT ![t].pc = "status", ![t].a = angle]
  /\ UNCHANGED shared

\* a set_servo_angle without its status test
StatusUnchecked(t) ==
  /\ Runs(t) /\ th[t].pc = "status"
  /\ th' = [th EXCEPT ![t].pc = "range"]
  /\ UNCHANGED shared

\* if not self.status: raise FailedException("NeoBin is not on")
StatusCheck(t) ==
  /\ Runs(t) /\ th[t].pc = "status"
  /\ th' = IF status THEN [th EXCEPT ![t].pc = "range"] ELSE Raise(t, "NeoBin is not on")
  /\ UNCHANGED shared

InRange(a) == settings["minAngle"] <= a /\ a <= settings["maxAngle"]

\* the range test; InvalidValueLengthException is raised inside the try and logged
RangeCheck(t) ==
  /\ Runs(t) /\ th[t].pc = "range"
  /\ th' = [th EXCEPT ![t].pc = IF InRange(th[t].a) THEN "drive" ELSE "opened"]
  /\ UNCHANGED shared

\* an actuator failure that leaves set_servo_angle as an exception
DriveRaises(t) ==
  /\ Runs(t) /\ th[t].pc = "drive"
  /\ IF pi = "up"
       THEN /\ servo' = PulseWidth(th[t].a)
            /\ th' = [th EXCEPT ![t].pc = "opened", ![t].drv = @ + 1]
       ELSE /\ servo' = servo
            /\ th' = Raise(t, "pigpio")
  /\ UNCHANGED <<is_auth, status, angle, opened, running, settings, disk, notifying, pi, sig, count>>

\* self.pi.set_servo_pulsewidth(...); after pi.stop() the call raises and is logged
Drive(t) ==
  /\ Runs(t) /\ th[t].pc = "drive"
  /\ IF pi = "up"
       THEN /\ servo' = PulseWidth(th[t].a)
            /\ th' = [th EXCEPT ![t].pc = "opened", ![t].drv = @ + 1]
       ELSE /\ servo' = servo
            /\ th' = [th EXCEPT ![t].pc = "opened"]
  /\ UNCHANGED <<is_auth, status, angle, opened, running, settings, disk, notifying, pi, sig, count>>

\* opened computed with the lower end included
IsOpenedFromMin(a) == settings["maxAngle"] >= a /\ a >= settings["minAngle"]

IsOpened(a) == settings["maxAngle"] >= a /\ a > settings["minAngle"]

\* self.service.opened = maxAngle >= self.service.angle > minAngle
Opened(t) ==
  /\ Runs(t) /\ th[t].pc = "opened"
  /\ opened' = IsOpened(angle)
  /\ th' = [th EXCEPT ![t].pc = "nAngle"]
  /\ UNCHANGED <<is_auth, status, angle, running, settings, disk, notifying, servo, pi, sig, count>>

\* an Angle notification replaced by a second Opened one
NotifyAngleAsOpened(t) ==
  /\ Runs(t) /\ th[t].pc = "nAngle"
  /\ th' = [th EXCEPT ![t].pc = "nOpened",
                      ![t].out = send_notification(@, NBool("Opened", opened))]
  /\ UNCHANGED shared

NotifyAngle(t) ==
  /\ Runs(t) /\ th[t].pc = "nAngle"
  /\ th' = [th EXCEPT ![t].pc = "nOpened",
                      ![t].out = send_notification(@, NInt("Angle", angle))]
  /\ UNCHANGED shared

\* the last statement; the sensor loop then dwells (after set_open) or cools down
NotifyOpened(t) ==
  /\ Runs(t) /\ th[t].pc = "nOpened"
  /\ th' = [th EXCEPT ![t].pc = IF t = "cmd" THEN "done"
                                ELSE IF th[t].op = "Open" THEN "dwell" ELSE "cool",
                      ![t].out = send_notification(@, NBool("Opened", opened))]
  /\ UNCHANGED shared

Dispatch(t) ==
  \/ Assign(t) \/ Arg(t) \/ StatusCheck(t) \/ RangeCheck(t)
  \/ Drive(t) \/ Opened(t) \/ NotifyAngle(t) \/ NotifyOpened(t)

(***************************************************************************)
(* NeoService.sensor_loop, in the daemon thread.                           *)
(***************************************************************************)
\* while self.running: a new iteration starts, or the thread ends
SensorLoop ==
  /\ Runs("sen") /\ th.sen.pc = "loop"
  /\ th' = [th EXCEPT !.sen = [Rest EXCEPT !.pc = IF running THEN "measure" ELSE "ended",
                                          !.calls = th.sen.calls]]
  /\ UNCHANGED shared

\* measure_distance(): 0 when off, on a timeout, on an exception or out of (0, 300)
measure_distance(raw) ==
  IF ~status THEN 0
  ELSE IF pi # "up" THEN 0
  ELSE IF 0 < raw /\ raw < 300 THEN raw ELSE 0

\* distance = self.measure_distance(); at most limit of them are distances
Measure(limit) ==
  /\ Runs("sen") /\ th.sen.pc = "measure"
  /\ \E raw \in RawEcho :
       LET distance == measure_distance(raw) IN
       /\ distance > 0 => Len(seen) < limit
       /\ th' = [th EXCEPT !.sen.pc = "test", !.sen.d = distance]
       /\ seen' = IF distance > 0 THEN Append(seen, distance) ELSE seen
  /\ UNCHANGED <<state, left>>

\* the test without its lower bound
TriggersFromZero(d) == d < settings["detectDistance"]

\* 0 < distance < detectDistance
Triggers(d) == d > 0 /\ d < settings["detectDistance"]

\* if distance > 0 and distance < detectDistance: self.characteristics[1].set_open()
Test ==
  /\ Runs("sen") /\ th.sen.pc = "test"
  /\ th' = IF Triggers(th.sen.d)
             THEN [th EXCEPT !.sen.pc = "assign", !.sen.op = "Open", !.sen.calls = Append(@, "Open"),
                             !.sen.out = <<>>, !.sen.drv = 0]
             ELSE [th EXCEPT !.sen.pc = "loop"]
  /\ UNCHANGED shared

\* a dwell that ends in set_close whatever running is
DwellThenClose ==
  /\ Runs("sen") /\ th.sen.pc = "dwell"
  /\ th' = [th EXCEPT !.sen.pc = "assign", !.sen.op = "Close", !.sen.calls = Append(@, "Close"),
                      !.sen.out = <<>>, !.sen.drv = 0]
  /\ UNCHANGED shared

\* time.sleep(3) is over; if self.running: set_close()
Dwell ==
  /\ Runs("sen") /\ th.sen.pc = "dwell"
  /\ th' = IF running
             THEN [th EXCEPT !.sen.pc = "assign", !.sen.op = "Close", !.sen.calls = Append(@, "Close"),
                             !.sen.out = <<>>, !.sen.drv = 0]
             ELSE [th EXCEPT !.sen.pc = "cool"]
  /\ UNCHANGED shared

\* time.sleep(0.5) is over
Cool ==
  /\ Runs("sen") /\ th.sen.pc = "cool"
  /\ th' = [th EXCEPT !.sen.pc = "loop"]
  /\ UNCHANGED shared

\* an exception that ends the thread
ExceptEnds ==
  /\ Runs("sen") /\ th.sen.pc = "except"
  /\ th' = [th EXCEPT !.sen.pc = "ended"]
  /\ UNCHANGED shared

\* except Exception: log, time.sleep(1)
Except ==
  /\ Runs("sen") /\ th.sen.pc = "except"
  /\ th' = [th EXCEPT !.sen.pc = "loop"]
  /\ UNCHANGED shared

(***************************************************************************)
(* The command path: one D-Bus method call at a time.                      *)
(***************************************************************************)
\* no authentication test at all
NoAuthentication == TRUE

\* NeoService.is_authenticated
is_authenticated == is_auth

Idle == Runs("cmd") /\ th.cmd.pc = "idle" /\ left > 0

\* The call begins: the context as the handler starts.
Begin(call) == [Rest EXCEPT !.call = call]

\* The call is over, with its error or none.
Done(call, res) == [th EXCEPT !.cmd = [Begin(call) EXCEPT !.pc = "done", !.res = res]]

\* a failed attempt that leaves an earlier authentication in place
StickyAuthWriteValue(value) ==
  /\ Idle
  /\ is_auth' = (is_auth \/ value = PASS)
  /\ th' = Done("Auth", IF value = PASS THEN Ok ELSE Failed("Authentication Failed"))
  /\ left' = left - 1
  /\ UNCHANGED <<status, angle, opened, running, settings, disk, notifying, servo, pi, sig, seen>>

\* AuthChrc.WriteValue
AuthWriteValue(value) ==
  /\ Idle
  /\ is_auth' = (value = PASS)
  /\ th' = Done("Auth", IF value = PASS THEN Ok ELSE Failed("Authentication Failed"))
  /\ left' = left - 1
  /\ UNCHANGED <<status, angle, opened, running, settings, disk, notifying, servo, pi, sig, seen>>

\* a StartNotify that refuses a second subscription
StartNotifyOnce ==
  /\ Idle
  /\ IF notifying \/ ~is_authenticated
       THEN /\ notifying' = notifying
            /\ th' = Done("StartNotify", Failed(IF notifying THEN "Already notifying"
                                                 ELSE "Not authenticated"))
       ELSE /\ notifying' = TRUE
            /\ th' = [Done("StartNotify", Ok) EXCEPT !.cmd.op = "Start notifying"]
  /\ left' = left - 1
  /\ UNCHANGED <<is_auth, status, angle, opened, running, settings, disk, servo, pi, sig, seen>>

\* InformChrc.StartNotify; op keeps the branch taken
StartNotify ==
  /\ Idle
  /\ IF notifying
       THEN /\ notifying' = notifying
            /\ th' = [Done("StartNotify", Ok) EXCEPT !.cmd.op = "Already notifying"]
       ELSE IF ~is_authenticated
         THEN /\ notifying' = notifying
              /\ th' = Done("StartNotify", Failed("Not authenticated"))
         ELSE /\ notifying' = TRUE
              /\ th' = [Done("StartNotify", Ok) EXCEPT !.cmd.op = "Start notifying"]
  /\ left' = left - 1
  /\ UNCHANGED <<is_auth, status, angle, opened, running, settings, disk, servo, pi, sig, seen>>

\* InformChrc.StopNotify; op keeps the branch taken
StopNotify ==
  /\ Idle
  /\ notifying' = FALSE
  /\ th' = [Done("StopNotify", Ok) EXCEPT
             !.cmd.op = IF notifying THEN "Stop notifying" ELSE "Not notifying"]
  /\ left' = left - 1
  /\ UNCHANGED <<is_auth, status, angle, opened, running, settings, disk, servo, pi, sig, seen>>

\* The options of a read: a selector text, or the options dictionary that a D-Bus
\* call carries ("{}"), which is unhashable.
Selectors == {"STATUS", "OPENED", "ANGLE", "TEMP", "{}"}

\* What a Python exception that no handler wraps becomes on the bus.
PythonError(why) == [err |-> "org.freedesktop.DBus.Python.TypeError", why |-> why]

\* a command_handler whose OPENED entry is get_status
ReadValueSwapped(options) ==
  /\ Idle
  /\ th' = IF ~is_authenticated THEN Done("Read", Failed("Not authenticated"))
           ELSE IF options = "{}" THEN Done("Read", PythonError("unhashable type: 'dict'"))
           ELSE IF options \notin {"STATUS", "OPENED", "ANGLE"}
             THEN Done("Read", Failed("Invalid command"))
           ELSE [Done("Read", Ok) EXCEPT !.cmd.ret =
                   CASE options = "STATUS" -> NBool(options, status)
                     [] options = "OPENED" -> NBool(options, status)
                     [] options = "ANGLE" -> NInt(options, angle)]
  /\ left' = left - 1
  /\ UNCHANGED <<state, seen>>

\* InformChrc.ReadValue
ReadValue(options) ==
  /\ Idle
  /\ th' = IF ~is_authenticated THEN Done("Read", Failed("Not authenticated"))
           ELSE IF options = "{}" THEN Done("Read", PythonError("unhashable type: 'dict'"))
           ELSE IF options \notin {"STATUS", "OPENED", "ANGLE"}
             THEN Done("Read", Failed("Invalid command"))
           ELSE [Done("Read", Ok) EXCEPT !.cmd.ret =
                   CASE options = "STATUS" -> NBool(options, status)
                     [] options = "OPENED" -> NBool(options, opened)
                     [] options = "ANGLE" -> NInt(options, angle)]
  /\ left' = left - 1
  /\ UNCHANGED <<state, seen>>

\* update_settings(data) up to the call of save_json: the pc and locals it leaves
UpdateSettingsEntry(text) ==
  LET j == JsonLoads(text) IN
  IF j.kind = "error" THEN [pc |-> "done", res |-> Failed("org.bluez.Error.InvalidValueLength: "), typ |-> "", key |-> "", n |-> 0]
  ELSE IF j.kind = "number" THEN [pc |-> "done", res |-> Failed("TypeError"), typ |-> "", key |-> "", n |-> 0]
  ELSE IF ~(HasKey(j.m, "type") /\ HasKey(j.m, "key") /\ HasKey(j.m, "value"))
    THEN [pc |-> "done", res |-> Failed("org.bluez.Error.InvalidValueLength: "), typ |-> "", key |-> "", n |-> 0]
  ELSE [pc |-> "save", res |-> Ok, typ |-> Lookup(j.m, "type").s, key |-> Lookup(j.m, "key").s,
        n |-> Lookup(j.m, "value").n]

\* WriteChrc.WriteValue after the authentication test: the branch taken for the payload
ParseCommand(value) ==
  LET stop(why) == [pc |-> "done", res |-> Failed(why), op |-> "", typ |-> "", key |-> "", n |-> 0]
      go(pc, op) == [pc |-> pc, res |-> Ok, op |-> op, typ |-> "", key |-> "", n |-> 0]
  IN
  IF ~Utf8Ok(value) THEN stop("UnicodeDecodeError")
  ELSE IF StartsWith(value, kANGLE)
    THEN LET r == ParseInt(Drop(value, 6))
         IN IF r.ok THEN [go("assign", "Angle") EXCEPT !.n = r.n]
            ELSE stop("org.bluez.Error.InvalidValueLength: ")
  ELSE IF StartsWith(value, kCONNECT)
    THEN IF Len(SplitColon(Drop(value, 8))) >= 2 THEN go("wifi", "connect_to_wifi")
         ELSE stop("list index out of range")
  ELSE IF StartsWith(value, kSETTINGS)
    THEN LET u == UpdateSettingsEntry(Drop(value, 9))
         IN [pc |-> u.pc, res |-> u.res, op |-> "update_settings", typ |-> u.typ, key |-> u.key, n |-> u.n]
  ELSE LET h == CommandHandler(value) IN
    CASE h = "set_open" -> go("assign", "Open")
      [] h = "set_close" -> go("assign", "Close")
      [] h = "set_status" -> go("toggle", h)
      [] h = "update_settings" -> stop("update_settings() missing 1 required positional argument: 'data'")
      [] h = "get_settings" -> go("gs1", h)
      [] h = "disconnect_from_wifi" -> go("wifi", h)
      [] h = "get_wifi" -> go("wifi", h)
      [] OTHER -> stop("Invalid command")

\* WriteChrc.WriteValue: the authentication test, the decoding and the branch
WriteValue(value) ==
  /\ Idle
  /\ th' = IF ~is_authenticated THEN Done("Write", Failed("Not authenticated"))
           ELSE LET c == ParseCommand(value)
                IN [th EXCEPT !.cmd = [Begin("Write") EXCEPT
                                         !.pc = c.pc, !.res = c.res, !.op = c.op, !.typ = c.typ,
                                         !.key = c.key, !.n = c.n]]
  /\ left' = left - 1
  /\ UNCHANGED <<state, seen>>

\* set_status: self.service.status = not self.service.status
\* a set_status that switches the device off whatever it was
ToggleOff ==
  /\ Runs("cmd") /\ th.cmd.pc = "toggle"
  /\ status' = FALSE
  /\ th' = [th EXCEPT !.cmd.pc = "nStatus"]
  /\ UNCHANGED <<is_auth, angle, opened, running, settings, disk, notifying, servo, pi, sig, count>>

Toggle ==
  /\ Runs("cmd") /\ th.cmd.pc = "toggle"
  /\ status' = ~status
  /\ th' = [th EXCEPT !.cmd.pc = "nStatus"]
  /\ UNCHANGED <<is_auth, angle, opened, running, settings, disk, notifying, servo, pi, sig, count>>

NotifyStatus ==
  /\ Runs("cmd") /\ th.cmd.pc = "nStatus"
  /\ th' = [th EXCEPT !.cmd.pc = "done", !.cmd.out = send_notification(@, NBool("Status", status))]
  /\ UNCHANGED shared

\* settings[data["type"]][data["key"]] = data["value"], on the file's content
Stored(file, key, value) == [k \in DOMAIN file \cup {key} |-> IF k = key THEN value ELSE file[k]]

\* a save that writes the file and leaves the cache as it was
save_json_file_only(io) ==
  /\ Runs("cmd") /\ th.cmd.pc = "save"
  /\ IF io = "ok" /\ th.cmd.typ = "settings"
       THEN /\ disk' = Stored(disk, th.cmd.key, th.cmd.n)
            /\ settings' = settings
            /\ th' = [th EXCEPT !.cmd.pc = "nSetting"]
       ELSE /\ UNCHANGED <<disk, settings>>
            /\ th' = [th EXCEPT !.cmd.pc = "done", !.cmd.res = Failed("Couldn't save file")]
  /\ UNCHANGED <<is_auth, status, angle, opened, running, notifying, servo, pi, sig, count>>

\* a save that changes the cache before the file is written
save_json_cache_first(io) ==
  /\ Runs("cmd") /\ th.cmd.pc = "save"
  /\ IF th.cmd.typ = "settings"
       THEN /\ settings' = Stored(settings, th.cmd.key, th.cmd.n)
            /\ disk' = IF io = "ok" THEN settings' ELSE disk
            /\ th' = IF io = "ok" THEN [th EXCEPT !.cmd.pc = "nSetting"]
                     ELSE [th EXCEPT !.cmd.pc = "done", !.cmd.res = Failed("Couldn't save file")]
       ELSE /\ UNCHANGED <<disk, settings>>
            /\ th' = [th EXCEPT !.cmd.pc = "done", !.cmd.res = Failed("Couldn't save file")]
  /\ UNCHANGED <<is_auth, status, angle, opened, running, notifying, servo, pi, sig, count>>

\* NeoService.save_json: the file is read, changed, written; the cache is replaced
save_json(io) ==
  /\ Runs("cmd") /\ th.cmd.pc = "save"
  /\ IF io = "ok" /\ th.cmd.typ = "settings"
       THEN /\ disk' = Stored(disk, th.cmd.key, th.cmd.n)
            /\ settings' = disk'
            /\ th' = [th EXCEPT !.cmd.pc = "nSetting"]
       ELSE /\ UNCHANGED <<disk, settings>>
            /\ th' = [th EXCEPT !.cmd.pc = "done", !.cmd.res = Failed("Couldn't save file")]
  /\ UNCHANGED <<is_auth, status, angle, opened, running, notifying, servo, pi, sig, count>>

\* update_settings: send_notification({key: value})
NotifySetting ==
  /\ Runs("cmd") /\ th.cmd.pc = "nSetting"
  /\ th' = [th EXCEPT !.cmd.pc = "done", !.cmd.out = send_notification(@, NInt(th.cmd.key, th.cmd.n))]
  /\ UNCHANGED shared

\* get_settings: the two notifications
GetSettings1 ==
  /\ Runs("cmd") /\ th.cmd.pc = "gs1"
  /\ th' = [th EXCEPT !.cmd.pc = "gs2", !.cmd.out = send_notification(@, NInt("maxAngle", settings["maxAngle"]))]
  /\ UNCHANGED shared

\* a second notification that reports minAngle
GetSettingsMinAngle ==
  /\ Runs("cmd") /\ th.cmd.pc = "gs2"
  /\ th' = [th EXCEPT !.cmd.pc = "done",
                      !.cmd.out = send_notification(@, NInt("minAngle", settings["minAngle"]))]
  /\ UNCHANGED shared

GetSettings2 ==
  /\ Runs("cmd") /\ th.cmd.pc = "gs2"
  /\ th' = [th EXCEPT !.cmd.pc = "done",
                      !.cmd.out = send_notification(@, NInt("detectDistance", settings["detectDistance"]))]
  /\ UNCHANGED shared

\* get_wifi, disconnect_from_wifi, connect_to_wifi: nmcli runs, the status is sent
Wifi(connected) ==
  /\ Runs("cmd") /\ th.cmd.pc = "wifi"
  /\ th' = [th EXCEPT !.cmd.pc = "done",
                      !.cmd.out = send_notification(@, NBool("WiFiConnectionData", connected))]
  /\ UNCHANGED shared

\* the method call returns to the main loop
Return ==
  /\ Runs("cmd") /\ th.cmd.pc = "done"
  /\ th' = [th EXCEPT !.cmd = Rest]
  /\ UNCHANGED shared

(***************************************************************************)
(* signal_handler (SIGINT), in the main thread.                            *)
(***************************************************************************)
\* neo_service.running = False
SigClear ==
  /\ sig = "none"
  /\ running' = FALSE /\ sig' = "cleared"
  /\ UNCHANGED <<is_auth, status, angle, opened, settings, disk, notifying, servo, pi, th, count>>

\* neo_service.pi.set_servo_pulsewidth(SERVO_PIN, 0)
SigZero ==
  /\ sig = "cleared"
  /\ servo' = 0 /\ sig' = "zeroed"
  /\ UNCHANGED <<is_auth, status, angle, opened, running, settings, disk, notifying, pi, th, count>>

\* neo_service.pi.stop()
SigStop ==
  /\ sig = "zeroed"
  /\ pi' = "stopped" /\ sig' = "stopped"
  /\ UNCHANGED <<is_auth, status, angle, opened, running, settings, disk, notifying, servo, th, count>>

\* mainloop.quit(); sys.exit(0): the daemon thread dies with the process
SigExit ==
  /\ sig = "stopped"
  /\ sig' = "exited"
  /\ UNCHANGED <<is_auth, status, angle, opened, running, settings, disk, notifying, servo, pi, th, count>>

Next ==
  \/ \E t \in {"cmd", "sen"} : Dispatch(t)
  \/ SensorLoop \/ Measure(MaxReads) \/ Test \/ Dwell \/ Cool \/ Except
  \/ \E value \in AuthPayloads : AuthWriteValue(value)
  \/ StartNotify \/ StopNotify
  \/ \E options \in Selectors : ReadValue(options)
  \/ \E value \in Payloads : WriteValue(value)
  \/ Toggle \/ NotifyStatus
  \/ \E io \in {"ok", "error"} : save_json(io)
  \/ NotifySetting \/ GetSettings1 \/ GetSettings2
  \/ \E connected \in BOOLEAN : Wifi(connected)
  \/ Return

\* The service at work: commands arrive while the sensor loop runs.
Spec == Init /\ [][Next]_vars

CmdNext ==
  \/ Dispatch("cmd")
  \/ SensorLoop \/ Measure(0) \/ Test
  \/ \E value \in AuthPayloads : AuthWriteValue(value)
  \/ StartNotify \/ StopNotify
  \/ \E options \in Selectors : ReadValue(options)
  \/ \E value \in Payloads : WriteValue(value)
  \/ Toggle \/ NotifyStatus
  \/ \E io \in {"ok", "error"} : save_json(io)
  \/ NotifySetting \/ GetSettings1 \/ GetSettings2
  \/ \E connected \in BOOLEAN : Wifi(connected)
  \/ Return

InitCmd ==
  /\ is_auth = FALSE
  /\ status = TRUE
  /\ angle = 0
  /\ opened = (180 >= 0 /\ 0 > 0)
  /\ running = TRUE
  /\ settings = DefaultSettings
  /\ disk = DefaultSettings
  /\ notifying = FALSE
  /\ servo = PulseWidth(DefaultSettings["minAngle"])
  /\ pi = "up"
  /\ sig = "none"
  /\ th = [t \in {"cmd", "sen"} |-> IF t = "sen" THEN [Rest EXCEPT !.pc = "loop"] ELSE Rest]
  /\ left = MaxCmds
  /\ seen = <<>>

\* The command path with nothing within the sensor's range: every measurement
\* is a timeout or beyond 300 cm, and the sensor loop never opens the lid.
CmdSpec == InitCmd /\ [][CmdNext]_vars

\* settings.json as NeoService.__init__ may find it.
Persisted ==
  { [k \in {"minAngle", "maxAngle", "detectDistance"} |->
       CASE k = "minAngle" -> lo [] k = "maxAngle" -> hi [] k = "detectDistance" -> dd]
    : lo \in {0, 10}, hi \in {90, 180}, dd \in {10, 20, 90} }

InitPersisted ==
  /\ is_auth = FALSE
  /\ status = TRUE
  /\ angle = 0
  /\ opened = (180 >= 0 /\ 0 > 0)
  /\ running = TRUE
  /\ settings \in Persisted
  /\ disk = settings
  /\ notifying = FALSE
  /\ servo = PulseWidth(settings["minAngle"])
  /\ pi = "up"
  /\ sig = "none"
  /\ th = [t \in {"cmd", "sen"} |-> IF t = "sen" THEN [Rest EXCEPT !.pc = "loop"] ELSE Rest]
  /\ left = 0
  /\ seen = <<>>

SensorNext ==
  \/ Dispatch("sen")
  \/ SensorLoop \/ Measure(MaxSeq) \/ Test \/ Dwell \/ Cool
  \/ SigClear \/ SigZero \/ SigStop \/ SigExit

\* The sensor loop alone, the device on, until SIGINT ends the process.
SensorSpec == InitPersisted /\ [][SensorNext]_vars

InitOpen ==
  /\ is_auth = FALSE
  /\ status = TRUE
  /\ angle = 0
  /\ opened = (180 >= 0 /\ 0 > 0)
  /\ running = TRUE
  /\ settings \in Persisted
  /\ disk = settings
  /\ notifying = FALSE
  /\ servo = PulseWidth(settings["minAngle"])
  /\ pi = "up"
  /\ sig = "none"
  /\ th = [t \in {"cmd", "sen"} |-> IF t = "sen" THEN [Rest EXCEPT !.pc = "loop"] ELSE Rest]
  /\ left = MaxCalls
  /\ seen = <<>>

OpenNext ==
  \/ \E t \in {"cmd", "sen"} : Dispatch(t)
  \/ SensorLoop \/ Measure(MaxReads) \/ Test \/ Dwell \/ Cool
  \/ AuthWriteValue(PASS)
  \/ WriteValue(wOPEN)
  \/ Return

\* OPEN commands race the sensor loop's set_open and set_close; the settings stay
\* as persisted and the device stays on.
OpenSpec == InitOpen /\ [][OpenNext]_vars

(***************************************************************************)
(* The properties.                                                         *)
(***************************************************************************)
DigitChar(d) ==
  CASE d = 0 -> "0" [] d = 1 -> "1" [] d = 2 -> "2" [] d = 3 -> "3" [] d = 4 -> "4"
    [] d = 5 -> "5" [] d = 6 -> "6" [] d = 7 -> "7" [] d = 8 -> "8" [] d = 9 -> "9"

RECURSIVE DecimalDigits(_)
DecimalDigits(n) ==
  IF n < 10 THEN <<DigitChar(n)>> ELSE Append(DecimalDigits(n \div 10), DigitChar(n % 10))

\* The decimal text of the integer a, as a client writes it after "ANGLE:".
Decimal(a) == IF a < 0 THEN <<"-">> \o DecimalDigits(-a) ELSE DecimalDigits(a)

\* The angles whose command text is written out.
Angles == {-5, 0, 7, 10, 90, 180, 200}

\* The command call that has just ended.
Ended(call) == th.cmd.pc = "done" /\ th.cmd.call = call

\* C1: for every integer a with minAngle <= a <= maxAngle, the command "ANGLE:<a>"
\* written while authenticated and while the device is on succeeds, and afterwards
\* angle = a and opened = (minAngle < a <= maxAngle).  The first conjunct is the
\* write that takes the text to the integer a; the second is the state when the
\* call has ended.
C1_SetAngleInRange ==
  /\ [][\A a \in Angles :
          (WriteValue(kANGLE \o Decimal(a)) /\ is_auth)
            => (th'.cmd.pc = "assign" /\ th'.cmd.op = "Angle" /\ th'.cmd.n = a)]_vars
  /\ []((Ended("Write") /\ th.cmd.op = "Angle" /\ status /\ InRange(th.cmd.n))
          => /\ th.cmd.res = Ok
             /\ angle = th.cmd.n
             /\ opened = (settings["minAngle"] < th.cmd.n /\ th.cmd.n <= settings["maxAngle"]))

\* "ANGLE:90" has ended without error with maxAngle = 90: the upper end of the range.
C1_Witness ==
  /\ Ended("Write") /\ th.cmd.op = "Angle" /\ th.cmd.res = Ok /\ status
  /\ th.cmd.n = 90 /\ settings["maxAngle"] = 90 /\ angle = 90 /\ opened

\* C2: "ANGLE:<a>" with a < minAngle or a > maxAngle, written while authenticated and
\* while the device is on, fails with an error and leaves the device as it was: angle
\* and opened keep their values, the actuator is not driven and no Angle or Opened
\* notification is emitted.
C2_SetAngleOutOfRange ==
  [][(th.cmd.call = "Write" /\ th.cmd.op = "Angle" /\ th.cmd.pc # "done"
        /\ status /\ ~InRange(th.cmd.n) /\ th'.cmd # th.cmd)
       => /\ angle' = angle /\ opened' = opened /\ servo' = servo
          /\ th'.cmd.out = <<>> /\ th'.cmd.drv = 0
          /\ th'.cmd.pc = "done" => th'.cmd.res.err # ""]_vars

\* C3: any command written to the command channel while is_auth is false fails with
\* "Not authenticated" and changes neither angle, opened, status nor the settings,
\* drives no actuator and emits no notification.
C3_UnauthenticatedWrite ==
  /\ [][\A value \in Payloads :
          (WriteValue(value) /\ ~is_auth)
            => /\ th'.cmd.pc = "done" /\ th'.cmd.res = Failed("Not authenticated")
               /\ th'.cmd.out = <<>> /\ th'.cmd.drv = 0 /\ th'.sen = th.sen
               /\ UNCHANGED <<angle, opened, status, settings, disk, servo>>]_vars
  /\ []((Ended("Write") /\ th.cmd.res = Failed("Not authenticated"))
          => (th.cmd.op = "" /\ th.cmd.out = <<>> /\ th.cmd.drv = 0))

\* A write has been refused for want of authentication.
C3_Witness ==
  Ended("Write") /\ ~is_auth /\ th.cmd.res = Failed("Not authenticated")

\* C4: Authenticate with the bytes of the credential sets is_auth to true; with any
\* other bytes it sets is_auth to false and raises an authentication error, also
\* when is_auth was true before the call.
C4_Authenticate ==
  [][\A value \in AuthPayloads :
       AuthWriteValue(value)
         => IF value = PASS
              THEN is_auth' /\ th'.cmd.res = Ok
              ELSE ~is_auth' /\ th'.cmd.res = Failed("Authentication Failed")]_vars

\* A failed attempt has revoked an authentication: the subscription, which only an
\* authenticated session starts, is still on.
C4_Witness ==
  Ended("Auth") /\ th.cmd.res = Failed("Authentication Failed") /\ ~is_auth /\ notifying

\* The events a context at a sending statement is about to send.
Events(t) ==
  CASE th[t].pc = "nAngle" -> {NInt("Angle", angle)}
    [] th[t].pc = "nOpened" -> {NBool("Opened", opened)}
    [] th[t].pc = "nStatus" -> {NBool("Status", status)}
    [] th[t].pc = "nSetting" -> {NInt(th[t].key, th[t].n)}
    [] th[t].pc = "gs1" -> {NInt("maxAngle", settings["maxAngle"])}
    [] th[t].pc = "gs2" -> {NInt("detectDistance", settings["detectDistance"])}
    [] th[t].pc = "wifi" -> {NBool("WiFiConnectionData", b) : b \in BOOLEAN}
    [] OTHER -> {}

\* C5: a send forwards exactly one change signal carrying its event when notifying is
\* true, and forwards nothing and keeps nothing when it is false; StartNotify and
\* StopNotify deliver nothing themselves, so an event sent before StartNotify is
\* not delivered after it, and after StopNotify no event is delivered.
C5_SendNotification ==
  /\ [][\A t \in {"cmd", "sen"} :
          (Events(t) # {} /\ th'[t].pc # th[t].pc)
            => IF notifying
                 THEN \E e \in Events(t) : th'[t].out = Append(th[t].out, e)
                 ELSE th'[t].out = th[t].out]_vars
  /\ [][(th.cmd.pc = "idle" /\ th'.cmd.call \in {"StartNotify", "StopNotify"})
          => /\ th'.cmd.out = <<>> /\ th'.sen.out = th.sen.out
             /\ th'.cmd.call = "StopNotify" => ~notifying']_vars

\* The sensor loop's set_open sent Angle before the subscription began and Opened
\* after it: the late subscriber has Opened alone.
C5_Witness ==
  th.sen.pc = "dwell" /\ notifying /\ th.sen.out = <<NBool("Opened", TRUE)>>

\* C6: StartNotify while notifying is true, and StopNotify while it is false, change
\* nothing and raise no error; the first StartNotify of an authenticated session
\* leaves notifying true and the first StopNotify leaves it false, so two calls in a
\* row leave what one call leaves.
C6_NotifyIdempotent ==
  [][/\ (StartNotify /\ notifying) => (th'.cmd.res = Ok /\ UNCHANGED state /\ th'.sen = th.sen)
     /\ (StopNotify /\ ~notifying) => (th'.cmd.res = Ok /\ UNCHANGED state /\ th'.sen = th.sen)
     /\ (StartNotify /\ ~notifying /\ is_auth) => (th'.cmd.res = Ok /\ notifying')
     /\ (StopNotify /\ notifying) => (th'.cmd.res = Ok /\ ~notifying')]_vars

\* An authenticated session's StartNotify found the subscription already on.
C6_Witness ==
  /\ Ended("StartNotify") /\ th.cmd.op = "Already notifying"
  /\ th.cmd.res = Ok /\ is_auth /\ notifying

\* C7: every StartNotify made while is_auth is false fails with "Not authenticated"
\* and leaves notifying as it was, whatever notifying is.
C7_StartNotifyUnauthenticated ==
  [][(StartNotify /\ ~is_auth)
       => (th'.cmd.res = Failed("Not authenticated") /\ notifying' = notifying)]_vars

RECURSIVE ExpectedCalls(_)
\* One Open and one Close for each reading d with 0 < d < detectDistance, in order.
ExpectedCalls(r) ==
  IF r = <<>> THEN <<>>
  ELSE ExpectedCalls(SubSeq(r, 1, Len(r) - 1))
         \o (IF 0 < r[Len(r)] /\ r[Len(r)] < settings["detectDistance"]
               THEN <<"Open", "Close">> ELSE <<>>)

\* C8: with the device on, each reading d with 0 < d < detectDistance makes the sensor
\* loop call set_open once and then, after the dwell and only if running is still
\* true, set_close once; a reading of 0 or of detectDistance or more calls neither.
\* The readings 25, 15, 25 with detectDistance = 20 give one Open, then one Close.
C8_SensorLoop ==
  LET E == ExpectedCalls(seen)
      c == th.sen.calls
      before == IF th.sen.d > 0 THEN ExpectedCalls(SubSeq(seen, 1, Len(seen) - 1)) ELSE E
  IN
  /\ th.sen.pc = "test" => c = before
  /\ th.sen.op = "Open" => (c \o <<"Close">> = E /\ (th.sen.pc = "cool" => ~running))
  /\ th.sen.op = "Close" => c = E
  /\ (th.sen.op = "" /\ th.sen.pc # "test") => (c = E \/ (~running /\ c \o <<"Close">> = E))
  /\ (seen = <<25, 15, 25>> /\ settings["detectDistance"] = 20 /\ running)
       => c = <<"Open", "Close">>

\* The readings 25, 15, 25 are over with detectDistance = 20.
C8_Witness ==
  /\ seen = <<25, 15, 25>> /\ settings["detectDistance"] = 20 /\ running
  /\ th.sen.pc = "loop" /\ th.sen.calls = <<"Open", "Close">>

\* The two ends of the lid's travel.
Ends == {settings["minAngle"], settings["maxAngle"]}

\* Some set_open has made its assignment of angle.
OpenStarted ==
  \/ th.cmd.op = "Open" /\ th.cmd.pc # "assign"
  \/ th.sen.calls # <<>> /\ ~(th.sen.calls = <<"Open">> /\ th.sen.pc = "assign")

\* C9: under every interleaving of the command path's and the sensor loop's set_open
\* (the settings fixed), angle is minAngle or maxAngle in every state after the
\* first set_open has assigned it, and it stays so: no other value is observable.
C9_AngleNeverTorn ==
  /\ [](OpenStarted => angle \in Ends)
  /\ [][/\ angle \in Ends => angle' \in Ends
        /\ \A t \in {"cmd", "sen"} :
             (th[t].op = "Open" /\ th[t].pc = "assign" /\ th'[t].pc = "arg")
               => angle' = settings["maxAngle"]]_vars

\* Both contexts are inside set_open at once, the start angle 0 being below minAngle.
C9_Witness ==
  /\ th.cmd.op = "Open" /\ th.cmd.pc = "status"
  /\ th.sen.op = "Open" /\ th.sen.pc = "arg"
  /\ settings["minAngle"] = 10 /\ angle = settings["maxAngle"]

\* The keys of the settings.
Recognized == {"minAngle", "maxAngle", "detectDistance"}

\* C10: update_settings with a key other than minAngle, maxAngle and detectDistance
\* fails with an error, leaves the cached and the persisted settings unchanged and
\* emits no notification.
C10_UnrecognizedKey ==
  [][(th.cmd.op = "update_settings" /\ th.cmd.pc \in {"save", "nSetting"}
        /\ th.cmd.key \notin Recognized /\ th'.cmd # th.cmd)
       => /\ settings' = settings /\ disk' = disk
          /\ th'.cmd.pc = "done" /\ th'.cmd.res.err # "" /\ th'.cmd.out = <<>>]_vars

\* The events of the sequence out, as a set.
Sent(out) == {out[i] : i \in 1..Len(out)}

\* A write of op has ended without error.
Succeeded(op) == Ended("Write") /\ th.cmd.op = op /\ th.cmd.res = Ok

\* The keys that a SETTINGS: command has changed from the defaults.
Updated == {k \in Recognized : settings[k] # DefaultSettings[k]}

Quiescent ==
  /\ th.cmd.pc = "idle"
  /\ th.sen.pc \in {"loop", "measure", "test", "dwell", "cool", "except", "ended"}

\* C12: in every state between operations, after any sequence of commands,
\* authentication attempts and sensor-loop steps, opened = (minAngle < angle <= maxAngle)
\* for the cached minAngle and maxAngle.
C12_OpenedInvariant ==
  Quiescent => (opened = (settings["minAngle"] < angle /\ angle <= settings["maxAngle"]))

\* The zero-argument command each exact-match keyword stands for, as the statement
\* under C13 has it.
KeywordCommand(value) ==
  CASE value = wOPEN -> "Open"
    [] value = wCLOSE -> "Close"
    [] value = wSTATUS -> "set_status"
    [] value = wSETTINGS -> "get_settings"
    [] value = wWIFI_DISCONNECT -> "disconnect_from_wifi"
    [] value = wGET_WIFI -> "get_wifi"

\* C13: each of the keywords OPEN, CLOSE, STATUS, SETTINGS, WIFI_DISCONNECT and
\* GET_WIFI, written while authenticated, is dispatched to its zero-argument command
\* and is not rejected; the bare keyword SETTINGS performs get_settings.
C13_Keywords ==
  [][\A value \in {wOPEN, wCLOSE, wSTATUS, wSETTINGS, wWIFI_DISCONNECT, wGET_WIFI} :
       (WriteValue(value) /\ is_auth)
         => /\ th'.cmd.op = KeywordCommand(value)
            /\ th'.cmd.res = Ok /\ th'.cmd.pc # "done"]_vars

SignedInteger(text) ==
  \E i \in 1..Len(text) : \E j \in i..Len(text) :
    /\ \A m \in (1..(i - 1)) \cup ((j + 1)..Len(text)) : text[m] = " "
    /\ \/ \A m \in i..j : text[m] \in DigitChars
       \/ i < j /\ text[i] \in {"+", "-"} /\ \A m \in (i + 1)..j : text[m] \in DigitChars

\* The keywords and prefixes of the command table.
Keywords == {wOPEN, wCLOSE, wSTATUS, wSETTINGS, wGET_SETTINGS, wWIFI_DISCONNECT, wGET_WIFI}

\* The payload is no UTF-8 text, matches no command, or is ANGLE: before text that is
\* no signed integer.
Unacceptable(value) ==
  \/ \E i \in 1..Len(value) : value[i] = "\\xff"
  \/ StartsWith(value, kANGLE) /\ ~SignedInteger(Drop(value, 6))
  \/ /\ value \notin Keywords
     /\ ~StartsWith(value, kANGLE) /\ ~StartsWith(value, kCONNECT) /\ ~StartsWith(value, kSETTINGS)

C17_DeviceOff ==
  /\ [][\A t \in {"cmd", "sen"} :
          (th[t].pc = "status" /\ ~status /\ th'[t] # th[t])
            => /\ servo' = servo /\ th'[t].drv = 0
               /\ IF t = "cmd"
                    THEN th'[t].pc = "done" /\ th'[t].res = Failed("NeoBin is not on")
                    ELSE th'[t].pc = "except"]_vars
  /\ [][(th.sen.pc = "measure" /\ ~status /\ th'.sen # th.sen)
          => (th'.sen.d = 0 /\ seen' = seen)]_vars
  /\ [][(th.sen.pc = "test" /\ th.sen.d = 0 /\ th'.sen # th.sen)
          => (th'.sen.pc = "loop" /\ th'.sen.calls = th.sen.calls)]_vars
  /\ []((Ended("Write") /\ th.cmd.res = Failed("NeoBin is not on"))
          => (th.cmd.op \in {"Angle", "Open", "Close"} /\ th.cmd.drv = 0))
  /\ [](th.sen.pc = "except" => th.sen.drv = 0)

\* OPEN has been refused with the device off; the servo is where the start left it.
C17_Witness ==
  /\ Ended("Write") /\ th.cmd.op = "Open" /\ ~status
  /\ th.cmd.res = Failed("NeoBin is not on") /\ th.cmd.drv = 0
  /\ servo = PulseWidth(settings["minAngle"])

\* C18: under every interleaving of a command-path set_open, set_close or ANGLE: with
\* a sensor-loop set_open or set_close, the device on, the settings unchanged and
\* each actuator call made, once both operations are over the angle last given to the
\* actuator is angle, and opened = (minAngle < angle <= maxAngle).
C18_Serialized ==
  (/\ Ended("Write") /\ th.cmd.op \in {"Open", "Close", "Angle"}
   /\ th.cmd.res = Ok /\ th.cmd.drv = 1
   /\ th.sen.pc \in {"dwell", "cool"} /\ th.sen.drv = 1
   /\ status /\ settings = DefaultSettings)
    => /\ servo = PulseWidth(angle)
       /\ opened = (settings["minAngle"] < angle /\ angle <= settings["maxAngle"])

\* C19: a set_open or set_close that the sensor loop invokes while is_auth is false
\* fails before any change of state: angle and opened stay as they are, the actuator
\* is not driven, no notification is emitted and the loop is in its except branch.
C19_SensorGate ==
  [][(/\ th.sen.op \in {"Open", "Close"}
      /\ th.sen.pc \in {"assign", "arg", "status", "range", "drive", "opened", "nAngle", "nOpened"}
      /\ ~is_auth /\ th'.sen # th.sen)
       => /\ angle' = angle /\ opened' = opened /\ servo' = servo
          /\ th'.sen.out = <<>> /\ th'.sen.drv = 0
          /\ th'.sen.pc = "except"]_vars

\* C20: shutdown is ordered: running is cleared, the sensor loop has ended before the
\* actuator output is zeroed, and the actuator is released only after that; the
\* sensor loop makes no actuator call once the output has been zeroed or released.
C20_OrderedShutdown ==
  [][/\ (sig = "cleared" /\ sig' = "zeroed") => (~running /\ th.sen.pc = "ended")
     /\ (sig = "zeroed" /\ sig' = "stopped") => (servo = 0 /\ th.sen.pc = "ended")
     /\ (sig \in {"zeroed", "stopped"} /\ th.sen.pc = "drive") => th'.sen.pc = "drive"]_vars

\* The same without the wait for the loop: only the calls of the actuator after the
\* zeroing are excluded.
C20_NoCallAfterZero ==
  [][(sig \in {"zeroed", "stopped"} /\ th.sen.pc = "drive") => th'.sen.pc = "drive"]_vars

\* A step of the sensor thread.
SensorStep ==
  \/ Dispatch("sen")
  \/ SensorLoop \/ Measure(MaxSeq) \/ Test \/ Dwell \/ Cool

LiveNext == SensorStep \/ SigClear

\* The sensor loop alone, running cleared at any moment and the process kept alive;
\* the thread is scheduled fairly.
LiveSpec == InitPersisted /\ [][LiveNext]_vars /\ WF_vars(SensorStep)

\* C21: the sensor loop ends only when running is false and, scheduled fairly, it
\* ends once running has been cleared; when running is cleared during the dwell
\* after a set_open of the loop, the loop ends without calling set_close.
C21_LoopExits ==
  /\ [](th.sen.pc = "ended" => ~running)
  /\ (~running ~> th.sen.pc = "ended")
  /\ [][(th.sen.pc = "dwell" /\ ~running /\ th'.sen # th.sen)
          => (th'.sen.pc = "cool" /\ th'.sen.calls = th.sen.calls)]_vars
  /\ [][(th.sen.pc \in {"cool", "loop", "ended"} /\ ~running)
          => (th'.sen.pc \in {"cool", "loop", "ended"} /\ th'.sen.calls = th.sen.calls)]_vars

\* The loop has ended after its set_open, with no set_close.
C21_Witness ==
  th.sen.pc = "ended" /\ ~running /\ th.sen.calls = <<"Open">>

\* The operations that go through set_servo_angle.
DispatcherOps == {"Angle", "Open", "Close"}

\* C22: a SetAngle, Open or Close that ends without error while subscribed has emitted
\* one Angle notification with the new angle and then one Opened notification with
\* the recomputed opened, and nothing else; one that ends in error has emitted nothing.
C22_AngleThenOpened ==
  Ended("Write") =>
    /\ (th.cmd.op \in DispatcherOps /\ th.cmd.res = Ok /\ notifying)
         => th.cmd.out = <<NInt("Angle", angle), NBool("Opened", IsOpened(angle))>>
    /\ (th.cmd.op \in DispatcherOps \cup {""} /\ th.cmd.res # Ok) => th.cmd.out = <<>>

\* An OPEN has succeeded while subscribed.
C22_Witness ==
  /\ Succeeded("Open") /\ notifying
  /\ th.cmd.out = <<NInt("Angle", settings["maxAngle"]), NBool("Opened", TRUE)>>

\* C23: a measurement taken with the device off or the pigpio handle released reads
\* 0, and every reading is 0 or a distance inside (0, 300); a reading of 0 calls
\* neither set_open nor set_close and the loop goes on; an exception inside an
\* iteration goes back to the loop test, and the loop ends only with running false.
C23_SensorFailure ==
  /\ [][(th.sen.pc = "measure" /\ th'.sen # th.sen)
          => /\ th'.sen.pc = "test"
             /\ th'.sen.d \in {0} \cup {r \in RawEcho : 0 < r /\ r < 300}
             /\ (~status \/ pi # "up") => th'.sen.d = 0]_vars
  /\ [][(th.sen.pc = "test" /\ th.sen.d = 0 /\ th'.sen # th.sen)
          => (th'.sen.pc = "loop" /\ th'.sen.calls = th.sen.calls)]_vars
  /\ [][(th.sen.pc = "except" /\ th'.sen # th.sen)
          => (th'.sen.pc = "loop" /\ th'.sen.calls = th.sen.calls)]_vars
  /\ [](th.sen.pc = "ended" => ~running)

\* An operation of the loop has raised (the device was switched off under it) and
\* running is still true.
C23_Witness ==
  th.sen.pc = "except" /\ running /\ th.sen.calls # <<>>

\* The connection to the pigpio daemon is lost: every later call on self.pi raises.
PigpioLost ==
  /\ pi = "up"
  /\ pi' = "lost"
  /\ UNCHANGED <<is_auth, status, angle, opened, running, settings, disk, notifying, servo, sig, th, count>>

FaultNext == CmdNext \/ PigpioLost

\* The command path with an actuator that may fail at any moment.
FaultSpec == InitCmd /\ [][FaultNext]_vars

\* The actuator call of the command under way was reached and did not drive.
ActuatorFailed ==
  /\ Ended("Write") /\ th.cmd.op \in DispatcherOps /\ th.cmd.res = Ok
  /\ InRange(th.cmd.a) /\ th.cmd.drv = 0

\* C24: when pi.set_servo_pulsewidth fails inside SetAngle, Open or Close with the
\* device on and the target in range, the operation goes on to its next statement
\* with the servo where it was, and it ends without error with angle equal to the
\* requested target and opened recomputed from it.
C24_NoRollback ==
  /\ [][(th.cmd.pc = "drive" /\ pi # "up" /\ th'.cmd # th.cmd)
          => (th'.cmd.pc = "opened" /\ servo' = servo /\ angle' = angle)]_vars
  /\ [](ActuatorFailed => /\ angle = Target(th.cmd.op, th.cmd.n)
                          /\ angle = th.cmd.a
                          /\ opened = IsOpened(angle))

\* "ANGLE:90" has ended without error on a lost actuator: angle is 90, opened is
\* true, and the servo still has the pulse width of angle 0.
C24_Witness ==
  /\ ActuatorFailed /\ th.cmd.op = "Angle" /\ pi = "lost"
  /\ angle = 90 /\ opened /\ servo = PulseWidth(0)

\* C25: from the STATUS command of an authenticated caller to its end, status changes
\* in one statement only, to its negation, and angle, opened, settings, is_auth and
\* notifying do not change; the command ends without error having emitted one Status
\* notification with the new status when notifying, none otherwise. Status being
\* changed by nothing else on the command path, two STATUS commands in a row restore it.
C25_ToggleStatus ==
  /\ [][(th.cmd.op = "set_status" \/ th'.cmd.op = "set_status")
          => /\ UNCHANGED <<angle, opened, settings, is_auth, notifying>>
             /\ IF th.cmd.pc = "toggle" /\ th'.cmd # th.cmd
                  THEN status' = ~status /\ th'.cmd.pc = "nStatus"
                  ELSE status' = status]_vars
  /\ [][status' # status => (th.cmd.pc = "toggle" /\ is_auth)]_vars
  /\ [][\A value \in Payloads :
          (WriteValue(value) /\ is_auth /\ value = wSTATUS) => th'.cmd.pc = "toggle"]_vars
  /\ []((Ended("Write") /\ th.cmd.op = "set_status")
          => /\ th.cmd.res = Ok
             /\ th.cmd.out = IF notifying THEN <<NBool("Status", status)>> ELSE <<>>)

\* Authenticate, STATUS, STATUS: the second STATUS has ended and status is true
\* again, as it was at the start.
C25_Witness ==
  /\ Succeeded("set_status") /\ left = MaxCmds - 3 /\ status

\* The commands of the two pairs, with the settings that move the ends of the range.
PairPayloads ==
  {wOPEN, wCLOSE, wSTATUS}
    \cup {kANGLE \o Decimal(a) : a \in {0, 10, 180}}
    \cup {SettingsJson("settings", k, <<"1", "0">>) : k \in {"minAngle", "maxAngle"}}

PairNext ==
  \/ Dispatch("cmd")
  \/ \E value \in {PASS} : AuthWriteValue(value)
  \/ StartNotify
  \/ \E value \in PairPayloads : WriteValue(value)
  \/ Toggle \/ NotifyStatus
  \/ \E io \in {"ok", "error"} : save_json(io)
  \/ NotifySetting
  \/ Return
  \/ PigpioLost

\* OPEN, CLOSE and ANGLE:<a> on the command path, with the device switched on and
\* off, the ends of the range moved and the actuator lost in between.
PairSpec == InitCmd /\ [][PairNext]_vars

\* What a dispatcher operation with the given target has produced at its end, as a
\* function of the state it ran in: the error or none, angle, opened, the actuator
\* call and the notifications.
Outcome(target) ==
  IF ~status
    THEN /\ th.cmd.res = Failed("NeoBin is not on")
         /\ angle = target
         /\ th.cmd.drv = 0
         /\ th.cmd.out = <<>>
    ELSE /\ th.cmd.res = Ok
         /\ angle = target
         /\ opened = IsOpened(target)
         /\ ~InRange(target) => th.cmd.drv = 0
         /\ (InRange(target) /\ pi = "up") => th.cmd.drv = 1
         /\ th.cmd.drv = 1 => servo = PulseWidth(target)
         /\ th.cmd.out = IF notifying
                           THEN <<NInt("Angle", target), NBool("Opened", IsOpened(target))>>
                           ELSE <<>>

\* C26: OPEN ends as ANGLE:<maxAngle> ends, and CLOSE as ANGLE:<minAngle>: each has
\* the outcome that the same function gives for its target, the device on or off,
\* whatever the cached settings; between the call and its end the servo changes in
\* the actuator call only (to the pulse width of angle, unless the call fails) and
\* opened in its assignment only, whichever the operation.
C26_OpenCloseAsSetAngle ==
  /\ []((Ended("Write") /\ th.cmd.op = "Open") => Outcome(settings["maxAngle"]))
  /\ []((Ended("Write") /\ th.cmd.op = "Close") => Outcome(settings["minAngle"]))
  /\ []((Ended("Write") /\ th.cmd.op = "Angle") => Outcome(th.cmd.n))
  /\ [][th.cmd.op \in DispatcherOps
          => /\ servo' # servo => th.cmd.pc = "drive"
             /\ opened' # opened => th.cmd.pc = "opened"
             /\ (th.cmd.pc = "drive" /\ th'.cmd # th.cmd)
                  => /\ th'.cmd.drv = IF pi = "up" THEN 1 ELSE 0
                     /\ servo' = IF pi = "up" THEN PulseWidth(angle) ELSE servo
             /\ UNCHANGED <<status, settings, notifying, is_auth>>]_vars

\* "ANGLE:10" has ended with minAngle = 10, where CLOSE goes: angle is 10, opened is
\* false and the servo was driven to the pulse width of 10.
C26_Witness ==
  /\ Succeeded("Angle") /\ th.cmd.n = settings["minAngle"] /\ settings["minAngle"] = 10
  /\ Outcome(10) /\ th.cmd.drv = 1 /\ ~opened

\* C27: the cache is replaced in one assignment, by the whole content just written to
\* the file, and only there; a save that fails leaves the cache as it was and ends
\* the command with "Couldn't save file" and no notification; the cache is at every
\* moment a whole persisted content, and the sensor loop tests its reading against
\* detectDistance of the cache of that moment.
C27_SettingsWhole ==
  /\ [](settings = disk)
  /\ [][settings' # settings
          => /\ th.cmd.pc = "save" /\ th'.cmd.pc = "nSetting"
             /\ settings' = Stored(disk, th.cmd.key, th.cmd.n)
             /\ disk' = settings']_vars
  /\ [][(th.cmd.pc = "save" /\ th'.cmd # th.cmd /\ th'.cmd.pc # "nSetting")
          => /\ settings' = settings
             /\ th'.cmd.pc = "done"
             /\ th'.cmd.res = Failed("Couldn't save file")
             /\ th'.cmd.out = <<>>]_vars
  /\ [][(th.sen.pc = "test" /\ th'.sen # th.sen)
          => (th'.sen.pc = "assign" <=> (0 < th.sen.d /\ th.sen.d < settings["detectDistance"]))]_vars

\* A SETTINGS command on detectDistance has ended with the save failure while the
\* sensor loop holds a reading: the cache is the default one.
C27_Witness ==
  /\ Ended("Write") /\ th.cmd.op = "update_settings" /\ th.cmd.key = "detectDistance"
  /\ th.cmd.res = Failed("Couldn't save file") /\ th.cmd.out = <<>>
  /\ settings = DefaultSettings /\ notifying
  /\ th.sen.pc = "test" /\ th.sen.d > 0

\* C28: while the device is off, no step of a SetAngle, Open or Close changes angle
\* or opened; the operation, which is refused with "NeoBin is not on", ends with
\* both as they were before the call.
C28_RefusalLeavesState ==
  [][(th.cmd.op \in DispatcherOps /\ ~status) => (angle' = angle /\ opened' = opened)]_vars

\* C29: a notification is emitted, by the command path or by the sensor loop, only in
\* a state where is_auth is true.
C29_NotifyOnlyAuthenticated ==
  [][\A t \in {"cmd", "sen"} : Len(th'[t].out) > Len(th[t].out) => is_auth]_vars

\* A step of the sensor thread, its exception handler included.
SensorThread == SensorStep \/ Except

LidNext ==
  \/ SensorThread
  \/ \E value \in {PASS} : AuthWriteValue(value)
  \/ \E value \in {wSTATUS} : WriteValue(value)
  \/ Toggle \/ NotifyStatus
  \/ Return

\* The sensor loop, scheduled fairly, with STATUS commands arriving at any moment;
\* running stays true.
LidSpec == InitOpen /\ [][LidNext]_vars /\ WF_vars(SensorThread)

====
